---- MODULE Spec2Model ----
(***************************************************************************)
(* Lawnmower waypoint generation of the KML-to-waypoint converters         *)
(* (kml_to_wayp_v7.py, kml_to_wayp_v8.py, vv3.py) and of their main().     *)
(*                                                                         *)
(* Geometry is carried on an integer metre grid: a point is <<lat, lon>>   *)
(* in metres of a small area at the equator, where the haversine distance  *)
(* and the spherical destination formula of the code coincide with planar  *)
(* Euclidean geometry (the code itself intersects lines in the planar      *)
(* lat/lon plane).  Real divisions round to the nearest grid unit.         *)
(* A bearing is carried as the direction vector <<dlat, dlon>> of the edge *)
(* it was computed from (bearing 0 = north = <<1, 0>>).                    *)
(* calculate_distance returns the SQUARE of the planar distance: every use *)
(* in the code is a comparison (<, <=, sort key, min key), which squaring  *)
(* preserves for non-negative numbers; a factor 0.8 becomes 16/25.         *)
(***************************************************************************)
EXTENDS Integers, Sequences, FiniteSets, TLC

\* ------------------------------------------------------------------ bounds
\* number of square sizes (side = SquareStep * k, k in 1..MaxSquareK)
MaxSquareK == 5

\* ------------------------------------------------------- integer arithmetic
Abs(x) == IF x < 0 THEN -x ELSE x

Sq(x) == x * x

\* a / b rounded to the nearest integer (b # 0)
RoundDiv(a, b) ==
    LET n == IF b < 0 THEN -a ELSE a
        d == Abs(b)
    IN  (2 * n + d) \div (2 * d)

RECURSIVE SqrtSearch(_, _, _)
SqrtSearch(n, lo, hi) ==
    IF lo >= hi THEN lo
    ELSE LET mid == (lo + hi + 1) \div 2
         IN  IF mid * mid <= n THEN SqrtSearch(n, mid, hi)
             ELSE SqrtSearch(n, lo, mid - 1)

\* floor of the square root of n >= 0
ISqrt(n) == SqrtSearch(n, 0, IF n < 46340 THEN n ELSE 46340)

\* math.sqrt rounded to the nearest grid unit
Sqrt(n) ==
    LET r == ISqrt(n)
    IN  IF n - r * r > r THEN r + 1 ELSE r

Reverse(s) == [i \in 1..Len(s) |-> s[Len(s) + 1 - i]]

Last(s) == s[Len(s)]

\* ------------------------------------------------------------------ GeoMath
None == <<>>

\* calculate_distance: squared planar distance between two points
calculate_distance(point1, point2) ==
    Sq(point2[1] - point1[1]) + Sq(point2[2] - point1[2])

\* length of a bearing's direction vector
BearingLen(bearing) == Sqrt(Sq(bearing[1]) + Sq(bearing[2]))

\* (bearing + 90) % 360
Perp(bearing) == <<-bearing[2], bearing[1]>>

\* (bearing + 180) % 360
Opposite(bearing) == <<-bearing[1], -bearing[2]>>

\* point_at_bearing_and_distance: the point `distance` metres from (lat, lon)
\* along `bearing`; a negative distance goes the other way
point_at_bearing_and_distance(lat, lon, bearing, distance) ==
    LET len == BearingLen(bearing)
    IN  <<lat + RoundDiv(distance * bearing[1], len),
          lon + RoundDiv(distance * bearing[2], len)>>

\* --------------------------------------------------------------- PolygonOps
RECURSIVE SumCoord(_, _, _)
SumCoord(polygon, c, i) ==
    IF i > Len(polygon) THEN 0
    ELSE polygon[i][c] + SumCoord(polygon, c, i + 1)

MinCoord(polygon, c) ==
    CHOOSE m \in {polygon[i][c] : i \in 1..Len(polygon)} :
        \A i \in 1..Len(polygon) : m <= polygon[i][c]

MaxCoord(polygon, c) ==
    CHOOSE m \in {polygon[i][c] : i \in 1..Len(polygon)} :
        \A i \in 1..Len(polygon) : m >= polygon[i][c]

\* get_polygon_bounds: (min_lat, max_lat, min_lon, max_lon)
get_polygon_bounds(polygon) ==
    [min_lat |-> MinCoord(polygon, 1), max_lat |-> MaxCoord(polygon, 1),
     min_lon |-> MinCoord(polygon, 2), max_lon |-> MaxCoord(polygon, 2)]

\* arithmetic mean of the vertices
Centroid(polygon) ==
    <<RoundDiv(SumCoord(polygon, 1, 1), Len(polygon)),
      RoundDiv(SumCoord(polygon, 2, 1), Len(polygon))>>

\* one vertex of create_buffer_polygon: moved buffer_distance along the unit
\* vector toward the centroid, whatever its distance to the centroid is;
\* left alone only when it coincides with the centroid
BufferVertex(point, center, buffer_distance) ==
    LET to_center_lat == center[1] - point[1]
        to_center_lon == center[2] - point[2]
        distance == Sqrt(Sq(to_center_lat) + Sq(to_center_lon))
    IN  IF distance > 0
        THEN <<point[1] + RoundDiv(to_center_lat * buffer_distance, distance),
               point[2] + RoundDiv(to_center_lon * buffer_distance, distance)>>
        ELSE point

create_buffer_polygon(polygon, buffer_distance) ==
    IF Len(polygon) < 3 THEN polygon
    ELSE [i \in 1..Len(polygon) |->
            BufferVertex(polygon[i], Centroid(polygon), buffer_distance)]

\* the edge that starts at vertex i (1-based), with wraparound
EdgeStart(polygon, i) == polygon[i]

EdgeEnd(polygon, i) == polygon[(i % Len(polygon)) + 1]

\* bearing 0 (north)
North == <<1, 0>>

\* math.degrees(math.atan2(y, x)) in whole degrees, in -180..180: exact on the
\* multiples of 45 degrees, linear in the slope within an octant; atan2(0, 0)
\* is 0
Atan2Degrees(y, x) ==
    LET ay == Abs(y)
        ax == Abs(x)
        a == IF ay = 0 THEN 0
             ELSE IF ay <= ax THEN RoundDiv(45 * ay, ax)
             ELSE 90 - RoundDiv(45 * ax, ay)
    IN  IF y >= 0 THEN (IF x >= 0 THEN a ELSE 180 - a)
        ELSE (IF x >= 0 THEN -a ELSE a - 180)

\* the forward azimuth of an edge without the normalisation to 0-360
EdgeBearingUnnormalised(p1, p2) == Atan2Degrees(p2[2] - p1[2], p2[1] - p1[1])

\* the forward azimuth from p1 to p2, normalised: (bearing + 360) % 360; y is
\* the east component and x the north component
EdgeBearingDegrees(p1, p2) ==
    (Atan2Degrees(p2[2] - p1[2], p2[1] - p1[1]) + 360) % 360

RECURSIVE LongestSideFrom(_, _, _)
LongestSideFrom(polygon, i, best) ==
    IF i > Len(polygon) THEN best
    ELSE LET p1 == EdgeStart(polygon, i)
             p2 == EdgeEnd(polygon, i)
             length == calculate_distance(p1, p2)
         IN  LongestSideFrom(polygon, i + 1,
                IF length > best.max_length
                THEN [longest_side_index |-> i - 1, max_length |-> length,
                      best_bearing |-> <<p2[1] - p1[1], p2[2] - p1[2]>>,
                      bearing_degrees |-> EdgeBearingDegrees(p1, p2)]
                ELSE best)

\* find_longest_side_with_bearing: the first edge of strictly greatest length
find_longest_side_with_bearing(polygon) ==
    IF Len(polygon) < 3
    THEN [longest_side_index |-> 0, max_length |-> 0, best_bearing |-> North,
          bearing_degrees |-> 0]
    ELSE LongestSideFrom(polygon, 1,
            [longest_side_index |-> 0, max_length |-> 0, best_bearing |-> North,
             bearing_degrees |-> 0])

\* float('inf') as the initial best distance
Infinity == -1

\* the loop over the vertices: a vertex replaces the best one only when it is
\* strictly nearer to the theoretical corner
RECURSIVE ClosestVertexFrom(_, _, _, _)
ClosestVertexFrom(polygon, corner, i, best) ==
    IF i > Len(polygon) THEN best.point
    ELSE LET dist == calculate_distance(polygon[i], corner)
         IN  ClosestVertexFrom(polygon, corner, i + 1,
                IF best.dist = Infinity \/ dist < best.dist
                THEN [dist |-> dist, point |-> polygon[i]]
                ELSE best)

\* the same loop with `<=`: the last of the nearest vertices wins
RECURSIVE ClosestVertexLastFrom(_, _, _, _)
ClosestVertexLastFrom(polygon, corner, i, best) ==
    IF i > Len(polygon) THEN best.point
    ELSE LET dist == calculate_distance(polygon[i], corner)
         IN  ClosestVertexLastFrom(polygon, corner, i + 1,
                IF best.dist = Infinity \/ dist <= best.dist
                THEN [dist |-> dist, point |-> polygon[i]]
                ELSE best)

ClosestVertexLast(polygon, corner) ==
    ClosestVertexLastFrom(polygon, corner, 1, [dist |-> Infinity, point |-> None])

\* the polygon vertex kept for one theoretical corner
ClosestVertex(polygon, corner) ==
    ClosestVertexFrom(polygon, corner, 1, [dist |-> Infinity, point |-> None])

\* find_polygon_corners
find_polygon_corners(polygon) ==
    IF Len(polygon) < 3 THEN None
    ELSE LET b == get_polygon_bounds(polygon)
         IN  [top_right    |-> ClosestVertex(polygon, <<b.max_lat, b.max_lon>>),
              top_left     |-> ClosestVertex(polygon, <<b.max_lat, b.min_lon>>),
              bottom_left  |-> ClosestVertex(polygon, <<b.min_lat, b.min_lon>>),
              bottom_right |-> ClosestVertex(polygon, <<b.min_lat, b.max_lon>>)]

\* -------------------------------------------------------- SegmentIntersector
\* 1e-10 square degrees are 1.2321 square metres: |denom| < 1e-10
IsParallel(denom) == Abs(denom) <= 1

\* 1e-8 degrees are 1.1 mm, below the grid unit: |a - b| < 1e-8
DedupEps == 1

\* line_intersection that also requires 0 <= t <= 1 along the probe line
line_intersection_segments(p1, p2, p3, p4) ==
    LET x1 == p1[1]  y1 == p1[2]
        x2 == p2[1]  y2 == p2[2]
        x3 == p3[1]  y3 == p3[2]
        x4 == p4[1]  y4 == p4[2]
        denom == (x1 - x2) * (y3 - y4) - (y1 - y2) * (x3 - x4)
        tn == (x1 - x3) * (y3 - y4) - (y1 - y3) * (x3 - x4)
        un == -((x1 - x2) * (y1 - y3) - (y1 - y2) * (x1 - x3))
        onEdge == IF denom > 0 THEN 0 <= un /\ un <= denom
                  ELSE denom <= un /\ un <= 0
        onProbe == IF denom > 0 THEN 0 <= tn /\ tn <= denom
                   ELSE denom <= tn /\ tn <= 0
    IN  IF IsParallel(denom) THEN None
        ELSE IF onEdge /\ onProbe
             THEN <<x1 + RoundDiv(tn * (x2 - x1), denom),
                    y1 + RoundDiv(tn * (y2 - y1), denom)>>
             ELSE None

\* line_intersection: (p1, p2) the probe line, (p3, p4) the polygon edge
line_intersection(p1, p2, p3, p4) ==
    LET x1 == p1[1]  y1 == p1[2]
        x2 == p2[1]  y2 == p2[2]
        x3 == p3[1]  y3 == p3[2]
        x4 == p4[1]  y4 == p4[2]
        denom == (x1 - x2) * (y3 - y4) - (y1 - y2) * (x3 - x4)
        tn == (x1 - x3) * (y3 - y4) - (y1 - y3) * (x3 - x4)
        un == -((x1 - x2) * (y1 - y3) - (y1 - y2) * (x1 - x3))
        \* 0 <= un / denom <= 1
        onEdge == IF denom > 0 THEN 0 <= un /\ un <= denom
                  ELSE denom <= un /\ un <= 0
    IN  IF IsParallel(denom) THEN None
        ELSE IF onEdge
             THEN <<x1 + RoundDiv(tn * (x2 - x1), denom),
                    y1 + RoundDiv(tn * (y2 - y1), denom)>>
             ELSE None

RECURSIVE EdgeIntersections(_, _, _, _)
EdgeIntersections(line_start, line_end, polygon, i) ==
    IF i > Len(polygon) THEN <<>>
    ELSE LET intersection == line_intersection(line_start, line_end,
                                EdgeStart(polygon, i), EdgeEnd(polygon, i))
             rest == EdgeIntersections(line_start, line_end, polygon, i + 1)
         IN  IF intersection # None THEN <<intersection>> \o rest ELSE rest

RECURSIVE RemoveDuplicates(_, _)
RemoveDuplicates(points, unique_intersections) ==
    IF points = <<>> THEN unique_intersections
    ELSE LET point == Head(points)
             is_duplicate ==
                \E k \in 1..Len(unique_intersections) :
                    /\ Abs(point[1] - unique_intersections[k][1]) < DedupEps
                    /\ Abs(point[2] - unique_intersections[k][2]) < DedupEps
         IN  RemoveDuplicates(Tail(points),
                IF is_duplicate THEN unique_intersections
                ELSE Append(unique_intersections, point))

\* line_polygon_intersections without the removal of duplicates
line_polygon_intersections_raw(line_start, line_end, polygon) ==
    EdgeIntersections(line_start, line_end, polygon, 1)

\* line_polygon_intersections
line_polygon_intersections(line_start, line_end, polygon) ==
    RemoveDuplicates(EdgeIntersections(line_start, line_end, polygon, 1), <<>>)

\* list.sort(key = distance from origin): stable, ascending
RECURSIVE InsertByDistance(_, _, _)
InsertByDistance(sorted, p, origin) ==
    IF sorted = <<>> THEN <<p>>
    ELSE IF calculate_distance(origin, Head(sorted)) <= calculate_distance(origin, p)
         THEN <<Head(sorted)>> \o InsertByDistance(Tail(sorted), p, origin)
         ELSE <<p>> \o sorted

RECURSIVE SortByDistance(_, _)
SortByDistance(points, origin) ==
    IF points = <<>> THEN <<>>
    ELSE InsertByDistance(SortByDistance(SubSeq(points, 1, Len(points) - 1), origin),
                          Last(points), origin)

max_extension == 2000

\* the two ends of the probe line through (point_lat, point_lon)
ProbeEnd1(point_lat, point_lon, bearing) ==
    point_at_bearing_and_distance(point_lat, point_lon, bearing, max_extension)

ProbeEnd2(point_lat, point_lon, bearing) ==
    point_at_bearing_and_distance(point_lat, point_lon, Opposite(bearing), max_extension)

\* get_line_intersections_only (v8): the deduplicated intersections sorted by
\* distance from end1, or nothing when there are fewer than 2
get_line_intersections_only(point_lat, point_lon, bearing, polygon) ==
    LET end1 == ProbeEnd1(point_lat, point_lon, bearing)
        end2 == ProbeEnd2(point_lat, point_lon, bearing)
        intersections == line_polygon_intersections(end1, end2, polygon)
    IN  IF Len(intersections) >= 2 THEN SortByDistance(intersections, end1)
        ELSE <<>>

\* generate_line_through_point_parallel_to_bearing (v7)
generate_line_through_point_parallel_to_bearing(point_lat, point_lon, bearing, polygon, go_forward) ==
    LET end1 == ProbeEnd1(point_lat, point_lon, bearing)
        end2 == ProbeEnd2(point_lat, point_lon, bearing)
        intersections == line_polygon_intersections(end1, end2, polygon)
        sorted == SortByDistance(intersections, end1)
    IN  IF Len(intersections) >= 2
        THEN IF go_forward THEN <<sorted[1], Last(sorted)>>
             ELSE <<Last(sorted), sorted[1]>>
        ELSE <<>>

\* ---------------------------------------------------------- ScanLineGenerator
\* offset_distance <= max_extend, with max_extend = diagonal_distance / 2 and
\* diagonal the squared length of the bounding-box diagonal
WithinExtend(offset_distance, diagonal) ==
    offset_distance < 0 \/ 4 * Sq(offset_distance) <= diagonal

\* centre of the bounding box
BoundsCenter(polygon) ==
    LET b == get_polygon_bounds(polygon)
    IN  <<RoundDiv(b.min_lat + b.max_lat, 2), RoundDiv(b.min_lon + b.max_lon, 2)>>

\* squared length of the bounding-box diagonal
BoundsDiagonal(polygon) ==
    LET b == get_polygon_bounds(polygon)
    IN  calculate_distance(<<b.min_lat, b.min_lon>>, <<b.max_lat, b.max_lon>>)

\* OffsetPoint that moves along the bearing instead of perpendicular to it
OffsetPointAlongBearing(center, bearing, signed_offset) ==
    point_at_bearing_and_distance(center[1], center[2], bearing, signed_offset)

\* the point of the sweep at a signed offset from the centre
OffsetPoint(center, bearing, signed_offset) ==
    point_at_bearing_and_distance(center[1], center[2], Perp(bearing), signed_offset)

\* ProbeLine that stores the two ends of the probe line as the endpoints
ProbeLineEndpoints(center, bearing, polygon, signed_offset) ==
    LET offset_point == OffsetPoint(center, bearing, signed_offset)
        line_intersections ==
            SortByDistance(
                line_polygon_intersections(
                    ProbeEnd1(offset_point[1], offset_point[2], bearing),
                    ProbeEnd2(offset_point[1], offset_point[2], bearing), polygon),
                offset_point)
    IN  IF Len(line_intersections) >= 2
        THEN [offset |-> signed_offset,
              intersections |-> line_intersections,
              start_point |-> ProbeEnd1(offset_point[1], offset_point[2], bearing),
              end_point |-> ProbeEnd2(offset_point[1], offset_point[2], bearing)]
        ELSE None

\* ProbeLine that also keeps a probe with a single intersection
ProbeLineLoose(center, bearing, polygon, signed_offset) ==
    LET offset_point == OffsetPoint(center, bearing, signed_offset)
        line_intersections ==
            SortByDistance(
                line_polygon_intersections(
                    ProbeEnd1(offset_point[1], offset_point[2], bearing),
                    ProbeEnd2(offset_point[1], offset_point[2], bearing), polygon),
                offset_point)
    IN  IF Len(line_intersections) >= 1
        THEN [offset |-> signed_offset,
              intersections |-> line_intersections,
              start_point |-> line_intersections[1],
              end_point |-> Last(line_intersections)]
        ELSE None

\* v8 loop body: the scan line of one probe, or None when the probe yields
\* fewer than 2 intersections
ProbeLine(center, bearing, polygon, signed_offset) ==
    LET offset_point == OffsetPoint(center, bearing, signed_offset)
        line_intersections ==
            SortByDistance(
                get_line_intersections_only(offset_point[1], offset_point[2],
                                            bearing, polygon),
                offset_point)
    IN  IF Len(line_intersections) >= 2
        THEN [offset |-> signed_offset,
              intersections |-> line_intersections,
              start_point |-> line_intersections[1],
              end_point |-> Last(line_intersections)]
        ELSE None

\* all_lines.sort(key = offset): stable, ascending
RECURSIVE InsertByOffset(_, _)
InsertByOffset(sorted, line) ==
    IF sorted = <<>> THEN <<line>>
    ELSE IF Head(sorted).offset <= line.offset
         THEN <<Head(sorted)>> \o InsertByOffset(Tail(sorted), line)
         ELSE <<line>> \o sorted

RECURSIVE SortByOffset(_)
SortByOffset(lines) ==
    IF lines = <<>> THEN <<>>
    ELSE InsertByOffset(SortByOffset(SubSeq(lines, 1, Len(lines) - 1)), Last(lines))

\* the number of lines one pass of the sweep retains from offset_distance on
RECURSIVE RetainedInPass(_, _, _, _, _, _, _)
RetainedInPass(c, b, poly, diagonal, step, dir, offset) ==
    IF ~WithinExtend(offset, diagonal) THEN 0
    ELSE (IF offset = 0 /\ dir = -1 THEN 0
          ELSE IF ProbeLine(c, b, poly, offset * dir) # None THEN 1 ELSE 0)
         + RetainedInPass(c, b, poly, diagonal, step, dir, offset + step)

\* the number of scan lines the sweep retains for a polygon, a buffer distance
\* and a spacing > 0
RetainedLineCount(poly, buffer, step) ==
    LET buffered == create_buffer_polygon(poly, buffer)
        b == find_longest_side_with_bearing(buffered).best_bearing
        c == BoundsCenter(buffered)
        diagonal == BoundsDiagonal(buffered)
    IN  RetainedInPass(c, b, buffered, diagonal, step, -1, 0)
        + RetainedInPass(c, b, buffered, diagonal, step, 1, 0)

\* ---------------------------------------------------------------- PathOrderer
\* ClosestToTopRight that takes the candidate farthest from the corner
FarthestFromTopRight(pattern_starts, tr_corner) ==
    CHOOSE k \in 1..Len(pattern_starts) :
        /\ \A j \in 1..Len(pattern_starts) :
              calculate_distance(pattern_starts[k], tr_corner)
                  >= calculate_distance(pattern_starts[j], tr_corner)
        /\ \A j \in 1..(k - 1) :
              calculate_distance(pattern_starts[j], tr_corner)
                  < calculate_distance(pattern_starts[k], tr_corner)

\* min(pattern_starts, key = distance to top_right): index of the first nearest
ClosestToTopRight(pattern_starts, tr_corner) ==
    CHOOSE k \in 1..Len(pattern_starts) :
        /\ \A j \in 1..Len(pattern_starts) :
              calculate_distance(pattern_starts[k], tr_corner)
                  <= calculate_distance(pattern_starts[j], tr_corner)
        /\ \A j \in 1..(k - 1) :
              calculate_distance(pattern_starts[j], tr_corner)
                  > calculate_distance(pattern_starts[k], tr_corner)

\* PatternStart that always walks the lines from the last one down
PatternStartDescending(lines, found_corners, home) ==
    LET n == Len(lines)
    IN  [line_order |-> [k \in 1..n |-> n + 1 - k], start_from_end |-> FALSE]

\* line order and starting end of optimize_line_ordering_for_corners
PatternStart(lines, found_corners, home) ==
    LET n == Len(lines)
        first_line == lines[1]
        last_line == lines[n]
        pattern_starts == <<first_line.start_point, first_line.end_point,
                            last_line.start_point, last_line.end_point>>
        closest_to_tr == ClosestToTopRight(pattern_starts, found_corners.top_right)
    IN  IF home # None /\ found_corners # None
        THEN [line_order |-> IF closest_to_tr <= 2 THEN [k \in 1..n |-> k]
                             ELSE [k \in 1..n |-> n + 1 - k],
              start_from_end |-> closest_to_tr \in {2, 4}]
        ELSE [line_order |-> [k \in 1..n |-> k], start_from_end |-> FALSE]

\* WalkLine that enters every later line at its farther endpoint
WalkLineFarther(path, line, start_from_end) ==
    IF path = <<>>
    THEN IF start_from_end THEN <<line.end_point, line.start_point>>
         ELSE <<line.start_point, line.end_point>>
    ELSE IF calculate_distance(Last(path), line.start_point)
              > calculate_distance(Last(path), line.end_point)
         THEN <<line.start_point, line.end_point>>
         ELSE <<line.end_point, line.start_point>>

\* WalkLine that emits only the nearer endpoint of a line
WalkLineSingle(path, line, start_from_end) ==
    IF path = <<>>
    THEN IF start_from_end THEN <<line.end_point>> ELSE <<line.start_point>>
    ELSE IF calculate_distance(Last(path), line.start_point)
              < calculate_distance(Last(path), line.end_point)
         THEN <<line.start_point>>
         ELSE <<line.end_point>>

\* the two waypoints one line adds to the walk
WalkLine(path, line, start_from_end) ==
    IF path = <<>>
    THEN IF start_from_end THEN <<line.end_point, line.start_point>>
         ELSE <<line.start_point, line.end_point>>
    ELSE LET prev_end == Last(path)
             start_dist == calculate_distance(prev_end, line.start_point)
             end_dist == calculate_distance(prev_end, line.end_point)
         IN  IF start_dist < end_dist
             THEN <<line.start_point, line.end_point>>
             ELSE <<line.end_point, line.start_point>>

\* EndsNearerHome without the 0.8 factor: last_to_home < first_to_home
EndsNearerHomeNoThreshold(path, home) ==
    calculate_distance(Last(path), home) < calculate_distance(path[1], home)

\* last_to_home < first_to_home * 0.8, on squared distances
EndsNearerHome(path, home) ==
    25 * calculate_distance(Last(path), home)
        < 16 * calculate_distance(path[1], home)

\* final optimization of optimize_line_ordering_for_corners
FinalOptimization(path, home) ==
    IF home # None /\ Len(path) > 0 /\ EndsNearerHome(path, home)
    THEN Reverse(path)
    ELSE path

\* 2 * midpoint of the edge starting at vertex i
TwiceMidpoint(polygon, i) ==
    <<EdgeStart(polygon, i)[1] + EdgeEnd(polygon, i)[1],
      EdgeStart(polygon, i)[2] + EdgeEnd(polygon, i)[2]>>

Twice(point) == <<2 * point[1], 2 * point[2]>>

\* get_side_closest_to_home (v7): first side whose midpoint is nearest home
get_side_closest_to_home(polygon, home) ==
    IF home = None \/ Len(polygon) < 3 THEN 0
    ELSE LET d(i) == calculate_distance(Twice(home), TwiceMidpoint(polygon, i))
             i == CHOOSE i \in 1..Len(polygon) :
                    /\ \A j \in 1..Len(polygon) : d(i) <= d(j)
                    /\ \A j \in 1..(i - 1) : d(j) > d(i)
         IN  i - 1

\* optimize_pattern_end_near_home with the comparison turned round: the path
\* is kept when its first waypoint is the nearer one
optimize_pattern_start_near_home(path, polygon, home) ==
    IF home = None \/ Len(path) < 2 THEN path
    ELSE LET closest_side == get_side_closest_to_home(polygon, home)
             side_midpoint2 == TwiceMidpoint(polygon, closest_side + 1)
             first_to_side == calculate_distance(Twice(path[1]), side_midpoint2)
             last_to_side == calculate_distance(Twice(Last(path)), side_midpoint2)
         IN  IF first_to_side < last_to_side THEN path
             ELSE Reverse(path)

\* optimize_pattern_end_near_home (v7)
optimize_pattern_end_near_home(path, polygon, home) ==
    IF home = None \/ Len(path) < 2 THEN path
    ELSE LET closest_side == get_side_closest_to_home(polygon, home)
             side_midpoint2 == TwiceMidpoint(polygon, closest_side + 1)
             first_to_side == calculate_distance(Twice(path[1]), side_midpoint2)
             last_to_side == calculate_distance(Twice(Last(path)), side_midpoint2)
         IN  IF first_to_side > last_to_side THEN path
             ELSE Reverse(path)

\* ------------------------------------------------ square wave lawnmower (v3)
\* the default camera_settings['sidelap_percent'], also the default of main()
sidelap_percent == 60

\* calculate_optimal_spacing, in metres: ground width 23.5 x altitude / 24,
\* times (100 - sidelap) / 100, at least 0.00001 degrees (1.11 m)
calculate_optimal_spacing(alt) ==
    LET optimal_spacing == RoundDiv(235 * alt * (100 - sidelap_percent), 24000)
    IN  IF optimal_spacing >= 1 THEN optimal_spacing ELSE 1

\* the scan latitude is carried doubled (lat2 = 2 * current_lat), because the
\* first scan line lies at min_lat + spacing / 2

\* the longitudes one edge adds to find_polygon_intersections; tolerance 1e-10
\* degrees is far below the grid unit
EdgeCrossings(lat2, polygon, i) ==
    LET p1 == EdgeStart(polygon, i)
        p2 == EdgeEnd(polygon, i)
    IN  IF p1[1] = p2[1]
        THEN IF 2 * p1[1] = lat2 THEN {p1[2], p2[2]} ELSE {}
        ELSE IF \/ (2 * p1[1] <= lat2 /\ lat2 < 2 * p2[1])
                \/ (2 * p2[1] <= lat2 /\ lat2 < 2 * p1[1])
             THEN {p1[2] + RoundDiv((lat2 - 2 * p1[1]) * (p2[2] - p1[2]),
                                    2 * (p2[1] - p1[1]))}
             ELSE {}

\* sorted(list(set(intersections)))
RECURSIVE SortedSeq(_)
SortedSeq(S) ==
    IF S = {} THEN <<>>
    ELSE LET m == CHOOSE x \in S : \A y \in S : x <= y
         IN  <<m>> \o SortedSeq(S \ {m})

\* the sorted crossings, cut to whole (entry, exit) pairs
find_polygon_intersections(lat2, polygon) ==
    LET intersections ==
            SortedSeq(UNION {EdgeCrossings(lat2, polygon, i) : i \in 1..Len(polygon)})
    IN  SubSeq(intersections, 1, 2 * (Len(intersections) \div 2))

\* the segments of one scan line that are longer than spacing / 10, as lines
RECURSIVE ScanSegments(_, _, _, _)
ScanSegments(lat2, intersections, i, spacing) ==
    IF i + 1 > Len(intersections) THEN <<>>
    ELSE LET left_lon == intersections[i]
             right_lon == intersections[i + 1]
             lat == RoundDiv(lat2, 2)
             rest == ScanSegments(lat2, intersections, i + 2, spacing)
         IN  IF 10 * Abs(right_lon - left_lon) > spacing
             THEN <<[offset |-> lat2,
                     intersections |-> <<<<lat, left_lon>>, <<lat, right_lon>>>>,
                     start_point |-> <<lat, left_lon>>,
                     end_point |-> <<lat, right_lon>>]>> \o rest
             ELSE rest

\* the waypoints of the segments of one scan line, west to east or back
RECURSIVE SegmentWaypoints(_, _)
SegmentWaypoints(segments, going_east) ==
    IF segments = <<>> THEN <<>>
    ELSE (IF going_east
          THEN <<Head(segments).start_point, Head(segments).end_point>>
          ELSE <<Head(segments).end_point, Head(segments).start_point>>)
         \o SegmentWaypoints(Tail(segments), going_east)

\* ----------------------------------------------------------- mission assembly
\* no file on disk
NoFile == <<>>

\* create_waypoint_file with an unguarded body: header and home written always
create_waypoint_file_unguarded(waypoints, home_point, file) ==
    <<[command |-> 16, point |-> IF home_point # None THEN home_point
                                 ELSE IF waypoints # <<>> THEN waypoints[1]
                                 ELSE <<0, 0>>],
      [command |-> 22, point |-> <<0, 0>>]>>
    \o [k \in 1..Len(waypoints) |-> [command |-> 16, point |-> waypoints[k]]]
    \o <<[command |-> 20, point |-> <<0, 0>>]>>

\* create_waypoint_file: the mission items written to the output file (home,
\* takeoff, survey waypoints, RTL), or the file left as it was when there is
\* no waypoint
create_waypoint_file(waypoints, home_point, file) ==
    IF waypoints = <<>> THEN file
    ELSE <<[command |-> 16, point |-> IF home_point # None THEN home_point
                                      ELSE waypoints[1]],
           [command |-> 22, point |-> <<0, 0>>]>>
         \o [k \in 1..Len(waypoints) |-> [command |-> 16, point |-> waypoints[k]]]
         \o <<[command |-> 20, point |-> <<0, 0>>]>>

\* --------------------------------------------------------------------- inputs
Square(a) == <<<<0, 0>>, <<0, a>>, <<a, a>>, <<a, 0>>>>

\* squares of side 20, 40, ...
Squares == {Square(20 * k) : k \in 1..MaxSquareK}

\* fewer than 3 vertices
ShortPolygons == {<<>>, <<<<5, 5>>>>, <<<<0, 0>>, <<0, 40>>>>}

\* at least 3 vertices, all coincident
CoincidentPolygons == {<<<<5, 5>>, <<5, 5>>, <<5, 5>>>>}

\* polygons that are not axis-aligned squares: a trapezoid whose long side
\* overhangs the short one, a right triangle cut parallel to its hypotenuse, a
\* flat trapezoid, two rectangles, a triangle, a self-crossing quadrilateral
\* (two lobes along the sweep) and a rectangle with a notch (a scan line
\* crosses its boundary four times)
OtherPolygons ==
    { <<<<0, 0>>, <<0, -10>>, <<8, -40>>, <<8, -8>>>>,
      <<<<0, 104>>, <<78, 0>>, <<3, 0>>, <<0, 4>>>>,
      <<<<0, 0>>, <<0, 40>>, <<6, 21>>, <<6, 19>>>>,
      <<<<0, 0>>, <<0, 60>>, <<30, 60>>, <<30, 0>>>>,
      <<<<0, 0>>, <<0, 60>>, <<10, 60>>, <<10, 0>>>>,
      <<<<0, 0>>, <<0, 40>>, <<30, 0>>>>,
      <<<<4, -10>>, <<4, 50>>, <<-4, 10>>, <<-4, 30>>>>,
      <<<<0, 0>>, <<0, 60>>, <<20, 60>>, <<4, 30>>, <<20, 0>>>> }

Polygons == Squares \cup ShortPolygons \cup CoincidentPolygons \cup OtherPolygons

\* --spacing, in metres; main() hands any parsed number on, 0 included
Spacings == {0, 2, 3, 20, 60}

BufferDistances == {0, 5, 10}

Homes == {None, <<0, 0>>, <<120, 120>>, <<-20, 50>>}

Versions == {"v7", "v8", "v3"}

\* the altitude argument, in metres
Altitudes == {10, 50}

\* main(): spacing = 0.00005 degrees when --spacing is not given, 5.55 m
DefaultSpacing == 6

\* main(): the local variable `spacing` after `if spacing is None: spacing =
\* 0.00005`; an optional value is None or <<value>>
MainSpacingValue(arg) == IF arg = None THEN <<DefaultSpacing>> ELSE arg

\* main(): the spacing handed to the converter
MainSpacing(arg) == MainSpacingValue(arg)[1]

\* main(): 'auto_spacing': spacing is None, evaluated after the default
\* spacing was filled in
MainAutoSpacing(arg) == MainSpacingValue(arg) = None

\* ---------------------------------------------------------------------- state
VARIABLES
    version,            \* which converter runs
    polygon,            \* the caller's polygon
    spacing,            \* self.spacing, in metres
    buffer_distance,    \* self.buffer_distance, in metres
    home_position,      \* self.home_position, or None
    pc,                 \* position in generate_parallel_lines_to_longest_side
    buffered_polygon,
    bearing,
    corners,
    center,             \* (center_lat, center_lon)
    diagonal_distance,  \* squared
    direction,
    offset_distance,
    all_lines,          \* v8: all_lines; v7: the retained lines, as a record of the run
    line_count,         \* v7
    waypoints,          \* the waypoint list under construction
    line_order,
    start_from_end,
    walk_index,         \* i of the walk over line_order
    probes,             \* signed offsets probed so far, as a record of the run
    result,             \* the returned list
    current_lat,        \* v3: twice the latitude of the scan line
    going_east,         \* v3
    mission_file,       \* the output file of main(), or NoFile
    call,               \* a helper called on its own: its name and arguments
    returned,           \* the value that call returned
    spacing_arg,        \* the --spacing option of main(): <<metres>>, or None
    auto_spacing,       \* v3: camera_settings['auto_spacing']
    altitude            \* the altitude argument of main()

vars == <<version, polygon, spacing, buffer_distance, home_position, pc,
          buffered_polygon, bearing, corners, center, diagonal_distance,
          direction, offset_distance, all_lines, line_count, waypoints,
          line_order, start_from_end, walk_index, probes, result,
          current_lat, going_east, mission_file, call, returned,
          spacing_arg, auto_spacing, altitude>>

config == <<version, polygon, spacing, buffer_distance, home_position>>

geometry == <<buffered_polygon, bearing, corners, center, diagonal_distance>>

ordering == <<line_order, start_from_end, walk_index>>

scan == <<current_lat, going_east>>

helper == <<call, returned>>

options == <<spacing_arg, auto_spacing, altitude>>

InitState ==
    /\ pc = "start"
    /\ buffered_polygon = <<>>
    /\ bearing = North
    /\ corners = None
    /\ center = <<0, 0>>
    /\ diagonal_distance = 0
    /\ direction = -1
    /\ offset_distance = 0
    /\ all_lines = <<>>
    /\ line_count = 0
    /\ waypoints = <<>>
    /\ line_order = <<>>
    /\ start_from_end = FALSE
    /\ walk_index = 0
    /\ probes = <<>>
    /\ result = <<>>
    /\ current_lat = 0
    /\ going_east = TRUE
    /\ mission_file = NoFile
    /\ call = None
    /\ returned = None

\* the converter as main() constructs it. v3: --spacing is optional and must
\* be positive for the scan to advance; v7 and v8 are given --spacing and have
\* no auto_spacing setting
Init ==
    /\ version \in Versions
    /\ polygon \in Polygons
    /\ buffer_distance \in BufferDistances
    /\ home_position \in Homes
    /\ IF version = "v3"
       THEN /\ home_position = None
            /\ spacing_arg \in {None} \cup {<<s>> : s \in Spacings \ {0}}
            /\ altitude \in Altitudes
       ELSE /\ spacing_arg \in {<<s>> : s \in Spacings}
            /\ altitude = 50
    /\ spacing = MainSpacing(spacing_arg)
    /\ auto_spacing = (version = "v3" /\ MainAutoSpacing(spacing_arg))
    /\ InitState

\* ReturnInvalidPolygon that hands the vertices back as the path
ReturnInvalidPolygonEcho ==
    /\ pc = "start"
    /\ Len(polygon) < 3
    /\ result' = polygon
    /\ pc' = "done"
    /\ UNCHANGED <<scan, mission_file, helper, options>>
    /\ UNCHANGED <<config, geometry, ordering, direction, offset_distance,
                   all_lines, line_count, waypoints, probes>>

\* if len(polygon) < 3: return []
ReturnInvalidPolygon ==
    /\ pc = "start"
    /\ Len(polygon) < 3
    /\ result' = <<>>
    /\ pc' = "done"
    /\ UNCHANGED <<scan, mission_file, helper, options>>
    /\ UNCHANGED <<config, geometry, ordering, direction, offset_distance,
                   all_lines, line_count, waypoints, probes>>

\* Prepare that buffers the caller's polygon in place
PrepareInPlace ==
    /\ pc = "start"
    /\ version \in {"v7", "v8"}
    /\ Len(polygon) >= 3
    /\ buffered_polygon' = create_buffer_polygon(polygon, buffer_distance)
    /\ polygon' = buffered_polygon'
    /\ bearing' = find_longest_side_with_bearing(buffered_polygon').best_bearing
    /\ corners' = IF version = "v8" THEN find_polygon_corners(buffered_polygon')
                  ELSE None
    /\ center' = BoundsCenter(buffered_polygon')
    /\ diagonal_distance' = BoundsDiagonal(buffered_polygon')
    /\ direction' = -1
    /\ offset_distance' = 0
    /\ pc' = "sweep"
    /\ UNCHANGED <<scan, mission_file, helper, options>>
    /\ UNCHANGED <<version, spacing, buffer_distance, home_position, ordering,
                   all_lines, line_count, waypoints, probes, result>>

\* buffer, longest side, corners, bounds, centre, diagonal
Prepare ==
    /\ pc = "start"
    /\ version \in {"v7", "v8"}
    /\ Len(polygon) >= 3
    /\ buffered_polygon' = create_buffer_polygon(polygon, buffer_distance)
    /\ bearing' = find_longest_side_with_bearing(buffered_polygon').best_bearing
    /\ corners' = IF version = "v8" THEN find_polygon_corners(buffered_polygon')
                  ELSE None
    /\ center' = BoundsCenter(buffered_polygon')
    /\ diagonal_distance' = BoundsDiagonal(buffered_polygon')
    /\ direction' = -1
    /\ offset_distance' = 0
    /\ pc' = "sweep"
    /\ UNCHANGED <<scan, mission_file, helper, options>>
    /\ UNCHANGED <<config, ordering, all_lines, line_count, waypoints, probes, result>>

\* the centre line probed on the negative pass as well
SweepProbeCenterTwice ==
    /\ pc = "sweep"
    /\ WithinExtend(offset_distance, diagonal_distance)
    /\ offset_distance = 0 /\ direction = -1
    /\ probes' = Append(probes, 0)
    /\ offset_distance' = offset_distance + spacing
    /\ UNCHANGED <<scan, mission_file, helper, options>>
    /\ UNCHANGED <<config, geometry, ordering, pc, direction, all_lines,
                   line_count, waypoints, result>>

\* the centre line is skipped on the negative pass
SweepSkipCenter ==
    /\ pc = "sweep"
    /\ WithinExtend(offset_distance, diagonal_distance)
    /\ offset_distance = 0 /\ direction = -1
    /\ offset_distance' = offset_distance + spacing
    /\ UNCHANGED <<scan, mission_file, helper, options>>
    /\ UNCHANGED <<config, geometry, ordering, pc, direction, all_lines,
                   line_count, waypoints, probes, result>>

\* one iteration of the while loop (v8)
SweepProbeV8 ==
    /\ pc = "sweep"
    /\ version = "v8"
    /\ WithinExtend(offset_distance, diagonal_distance)
    /\ ~(offset_distance = 0 /\ direction = -1)
    /\ LET line == ProbeLine(center, bearing, buffered_polygon,
                             offset_distance * direction)
       IN  all_lines' = IF line # None THEN Append(all_lines, line) ELSE all_lines
    /\ probes' = Append(probes, offset_distance * direction)
    /\ offset_distance' = offset_distance + spacing
    /\ UNCHANGED <<scan, mission_file, helper, options>>
    /\ UNCHANGED <<config, geometry, ordering, pc, direction, line_count,
                   waypoints, result>>

\* one iteration of the while loop (v7)
SweepProbeV7 ==
    /\ pc = "sweep"
    /\ version = "v7"
    /\ WithinExtend(offset_distance, diagonal_distance)
    /\ ~(offset_distance = 0 /\ direction = -1)
    /\ LET offset_point == OffsetPoint(center, bearing, offset_distance * direction)
           line_waypoints ==
               generate_line_through_point_parallel_to_bearing(
                   offset_point[1], offset_point[2], bearing, buffered_polygon,
                   line_count % 2 = 0)
           forward ==
               generate_line_through_point_parallel_to_bearing(
                   offset_point[1], offset_point[2], bearing, buffered_polygon, TRUE)
       IN  IF line_waypoints # <<>>
           THEN /\ waypoints' = waypoints \o line_waypoints
                /\ line_count' = line_count + 1
                /\ all_lines' = Append(all_lines,
                                   [offset |-> offset_distance * direction,
                                    intersections |-> forward,
                                    start_point |-> forward[1],
                                    end_point |-> forward[2]])
           ELSE UNCHANGED <<waypoints, line_count, all_lines>>
    /\ probes' = Append(probes, offset_distance * direction)
    /\ offset_distance' = offset_distance + spacing
    /\ UNCHANGED <<scan, mission_file, helper, options>>
    /\ UNCHANGED <<config, geometry, ordering, pc, direction, result>>

\* the negative pass is over: for direction in [-1, 1]
SweepNextDirection ==
    /\ pc = "sweep"
    /\ ~WithinExtend(offset_distance, diagonal_distance)
    /\ direction = -1
    /\ direction' = 1
    /\ offset_distance' = 0
    /\ UNCHANGED <<scan, mission_file, helper, options>>
    /\ UNCHANGED <<config, geometry, ordering, pc, all_lines, line_count,
                   waypoints, probes, result>>

\* ChooseOrder without all_lines.sort: the lines stay in the order of the sweep
ChooseOrderUnsorted ==
    /\ pc = "sweep"
    /\ version = "v8"
    /\ ~WithinExtend(offset_distance, diagonal_distance)
    /\ direction = 1
    /\ all_lines # <<>>
    /\ LET start == PatternStart(all_lines, corners, home_position)
       IN  /\ line_order' = start.line_order
           /\ start_from_end' = start.start_from_end
    /\ walk_index' = 1
    /\ pc' = "walk"
    /\ UNCHANGED <<scan, mission_file, helper, options>>
    /\ UNCHANGED <<config, geometry, direction, offset_distance, line_count,
                   waypoints, probes, result, all_lines>>

\* v8, after the sweep: all_lines.sort, then the head of
\* optimize_line_ordering_for_corners with at least one line
ChooseOrder ==
    /\ pc = "sweep"
    /\ version = "v8"
    /\ ~WithinExtend(offset_distance, diagonal_distance)
    /\ direction = 1
    /\ all_lines # <<>>
    /\ all_lines' = SortByOffset(all_lines)
    /\ LET start == PatternStart(all_lines', corners, home_position)
       IN  /\ line_order' = start.line_order
           /\ start_from_end' = start.start_from_end
    /\ walk_index' = 1
    /\ pc' = "walk"
    /\ UNCHANGED <<scan, mission_file, helper, options>>
    /\ UNCHANGED <<config, geometry, direction, offset_distance, line_count,
                   waypoints, probes, result>>

\* ReturnNoLines that returns the centre of the sweep as a zero-length line
ReturnNoLinesCenter ==
    /\ pc = "sweep"
    /\ version = "v8"
    /\ ~WithinExtend(offset_distance, diagonal_distance)
    /\ direction = 1
    /\ all_lines = <<>>
    /\ result' = <<center, center>>
    /\ pc' = "done"
    /\ UNCHANGED <<scan, mission_file, helper, options>>
    /\ UNCHANGED <<config, geometry, ordering, direction, offset_distance,
                   all_lines, line_count, waypoints, probes>>

\* v8, after the sweep: if not all_lines: return []
ReturnNoLines ==
    /\ pc = "sweep"
    /\ version = "v8"
    /\ ~WithinExtend(offset_distance, diagonal_distance)
    /\ direction = 1
    /\ all_lines = <<>>
    /\ result' = <<>>
    /\ pc' = "done"
    /\ UNCHANGED <<scan, mission_file, helper, options>>
    /\ UNCHANGED <<config, geometry, ordering, direction, offset_distance,
                   all_lines, line_count, waypoints, probes>>

\* v8: one iteration of the walk over line_order
WalkStep ==
    /\ pc = "walk"
    /\ walk_index <= Len(line_order)
    /\ waypoints' = waypoints \o WalkLine(waypoints, all_lines[line_order[walk_index]],
                                          start_from_end)
    /\ walk_index' = walk_index + 1
    /\ UNCHANGED <<scan, mission_file, helper, options>>
    /\ UNCHANGED <<config, geometry, pc, direction, offset_distance, all_lines,
                   line_count, line_order, start_from_end, probes, result>>

\* v8: the final optimization and the return
ReturnOrdered ==
    /\ pc = "walk"
    /\ walk_index > Len(line_order)
    /\ result' = FinalOptimization(waypoints, home_position)
    /\ pc' = "done"
    /\ UNCHANGED <<scan, mission_file, helper, options>>
    /\ UNCHANGED <<config, geometry, ordering, direction, offset_distance,
                   all_lines, line_count, waypoints, probes>>

\* v7, after the sweep: optimize to end near the home side, and return
ReturnV7 ==
    /\ pc = "sweep"
    /\ version = "v7"
    /\ ~WithinExtend(offset_distance, diagonal_distance)
    /\ direction = 1
    /\ result' = IF home_position # None
                 THEN optimize_pattern_end_near_home(waypoints, buffered_polygon,
                                                     home_position)
                 ELSE waypoints
    /\ pc' = "done"
    /\ UNCHANGED <<scan, mission_file, helper, options>>
    /\ UNCHANGED <<config, geometry, ordering, direction, offset_distance,
                   all_lines, line_count, waypoints, probes>>

\* v3: buffer, bounds, first scan line at min_lat + spacing / 2, going east
PrepareV3 ==
    /\ pc = "start"
    /\ version = "v3"
    /\ Len(polygon) >= 3
    /\ buffered_polygon' = create_buffer_polygon(polygon, buffer_distance)
    /\ bearing' = <<0, 1>>
    /\ spacing' = IF auto_spacing THEN calculate_optimal_spacing(altitude)
                  ELSE spacing
    /\ current_lat' = 2 * get_polygon_bounds(buffered_polygon').min_lat + spacing'
    /\ going_east' = TRUE
    /\ pc' = "scan"
    /\ UNCHANGED <<helper, options>>
    /\ UNCHANGED <<version, polygon, buffer_distance, home_position>>
    /\ UNCHANGED <<ordering, corners, center, diagonal_distance, direction,
                   offset_distance, all_lines, line_count, waypoints, probes,
                   result, mission_file>>

\* v3: one iteration of while current_lat <= max_lat - spacing / 2
ScanLineV3 ==
    /\ pc = "scan"
    /\ current_lat <= 2 * get_polygon_bounds(buffered_polygon).max_lat - spacing
    /\ LET intersections == find_polygon_intersections(current_lat, buffered_polygon)
           segments == ScanSegments(current_lat, intersections, 1, spacing)
       IN  /\ waypoints' = waypoints \o SegmentWaypoints(segments, going_east)
           /\ line_count' = line_count + Len(segments)
           /\ all_lines' = all_lines \o segments
    /\ probes' = Append(probes, current_lat)
    /\ current_lat' = current_lat + 2 * spacing
    /\ going_east' = ~going_east
    /\ UNCHANGED <<helper, options>>
    /\ UNCHANGED <<config, geometry, ordering, pc, direction, offset_distance,
                   result, mission_file>>

\* v3: the sweep is over
ReturnV3 ==
    /\ pc = "scan"
    /\ ~(current_lat <= 2 * get_polygon_bounds(buffered_polygon).max_lat - spacing)
    /\ result' = waypoints
    /\ pc' = "done"
    /\ UNCHANGED <<helper, options>>
    /\ UNCHANGED <<config, geometry, ordering, scan, direction, offset_distance,
                   all_lines, line_count, waypoints, probes, mission_file>>

\* the home point create_waypoint_file falls back to: v7 and v8 use
\* self.home_position, v3 has none
HomePoint == IF version = "v3" THEN None ELSE home_position

\* main(): if not waypoints: return, before create_waypoint_file
MainNoWaypoints ==
    /\ pc = "done"
    /\ result = <<>>
    /\ pc' = "exit"
    /\ UNCHANGED <<helper, options>>
    /\ UNCHANGED <<config, geometry, ordering, scan, direction, offset_distance,
                   all_lines, line_count, waypoints, probes, result, mission_file>>

\* main(): create_waypoint_file(waypoints, output_file); opening the file can
\* fail, which create_waypoint_file catches
MainCreateWaypointFile ==
    /\ pc = "done"
    /\ result # <<>>
    /\ \E opened \in BOOLEAN :
          mission_file' = IF opened
                          THEN create_waypoint_file(result, HomePoint, mission_file)
                          ELSE mission_file
    /\ pc' = "exit"
    /\ UNCHANGED <<helper, options>>
    /\ UNCHANGED <<config, geometry, ordering, scan, direction, offset_distance,
                   all_lines, line_count, waypoints, probes, result>>

\* a caller other than main() hands the path straight to create_waypoint_file
CallCreateWaypointFile ==
    /\ pc = "done"
    /\ mission_file' = create_waypoint_file(result, HomePoint, mission_file)
    /\ pc' = "returned"
    /\ UNCHANGED <<helper, options>>
    /\ UNCHANGED <<config, geometry, ordering, scan, direction, offset_distance,
                   all_lines, line_count, waypoints, probes, result>>

\* the caller keeps the returned path and calls
\* generate_parallel_lines_to_longest_side once more, on the same converter
\* and with the same polygon object
CallAgain ==
    /\ pc = "done"
    /\ version \in {"v7", "v8"}
    /\ call = None
    /\ call' = [name |-> "generate_parallel_lines_to_longest_side",
                polygon |-> polygon]
    /\ returned' = result
    /\ pc' = "start"
    /\ buffered_polygon' = <<>>
    /\ bearing' = North
    /\ corners' = None
    /\ center' = <<0, 0>>
    /\ diagonal_distance' = 0
    /\ direction' = -1
    /\ offset_distance' = 0
    /\ all_lines' = <<>>
    /\ line_count' = 0
    /\ waypoints' = <<>>
    /\ line_order' = <<>>
    /\ start_from_end' = FALSE
    /\ walk_index' = 0
    /\ probes' = <<>>
    /\ result' = <<>>
    /\ UNCHANGED <<config, scan, mission_file, options>>

Next ==
    \/ ReturnInvalidPolygon
    \/ Prepare
    \/ SweepSkipCenter
    \/ SweepProbeV8
    \/ SweepProbeV7
    \/ SweepNextDirection
    \/ ChooseOrder
    \/ ReturnNoLines
    \/ WalkStep
    \/ ReturnOrdered
    \/ ReturnV7
    \/ PrepareV3
    \/ ScanLineV3
    \/ ReturnV3
    \/ MainNoWaypoints
    \/ MainCreateWaypointFile
    \/ CallCreateWaypointFile
    \/ CallAgain

Spec == Init /\ [][Next]_vars

\* ------------------------------------------------------ helpers on their own
\* the converter's helper methods called directly, outside a run of the sweep;
\* a behaviour is one call on a fresh converter
driver == <<config, geometry, ordering, scan, pc, direction, offset_distance,
            all_lines, line_count, waypoints, probes, result, mission_file,
            options>>

\* polygons with at least 3 vertices
ValidPolygons == {poly \in Polygons : Len(poly) >= 3}

\* end points of probe segments, inside and outside the polygons
ProbeCoords == {-30, -10, 10, 50, 130}

ProbePoints == {<<lat, lon>> : lat \in ProbeCoords, lon \in ProbeCoords}

HelperInit ==
    /\ version = "v8"
    /\ polygon = <<>>
    /\ spacing = 20
    /\ buffer_distance = 0
    /\ home_position = None
    /\ spacing_arg = <<20>>
    /\ auto_spacing = FALSE
    /\ altitude = 50
    /\ InitState

\* line_polygon_intersections(line_start, line_end, polygon)
CallLinePolygonIntersections ==
    /\ call = None
    /\ \E line_start \in ProbePoints, line_end \in ProbePoints, poly \in ValidPolygons :
          /\ line_start # line_end
          /\ call' = [name |-> "line_polygon_intersections",
                      line_start |-> line_start, line_end |-> line_end,
                      polygon |-> poly]
          /\ returned' = line_polygon_intersections(line_start, line_end, poly)
    /\ UNCHANGED driver

\* the same vertices listed from vertex k + 1 on
Rotated(poly, k) ==
    [i \in 1..Len(poly) |-> poly[((i + k - 1) % Len(poly)) + 1]]

\* a square standing on a vertex: two vertices are equally near to each corner
\* of its bounding box
Diamond == <<<<0, 10>>, <<10, 20>>, <<20, 10>>, <<10, 0>>>>

\* the polygons in every listing order of their vertices, both ways round
Listings ==
    UNION {{Rotated(poly, k) : k \in 0..(Len(poly) - 1)}
           \cup {Rotated(Reverse(poly), k) : k \in 0..(Len(poly) - 1)} :
           poly \in ValidPolygons \cup {Diamond}}

\* find_longest_side_with_bearing(polygon)
CallFindLongestSide ==
    /\ call = None
    /\ \E poly \in Listings :
          /\ call' = [name |-> "find_longest_side_with_bearing", polygon |-> poly]
          /\ returned' = find_longest_side_with_bearing(poly)
    /\ UNCHANGED driver

\* end points of polygon edges
EdgePoints == {<<0, 0>>, <<0, 40>>, <<30, 0>>, <<6, 21>>, <<100, 100>>}

\* line_intersection(p1, p2, p3, p4)
CallLineIntersection ==
    /\ call = None
    /\ \E p1 \in ProbePoints, p2 \in ProbePoints, p3 \in EdgePoints, p4 \in EdgePoints :
          /\ call' = [name |-> "line_intersection",
                      p1 |-> p1, p2 |-> p2, p3 |-> p3, p4 |-> p4]
          /\ returned' = line_intersection(p1, p2, p3, p4)
    /\ UNCHANGED driver

\* find_polygon_corners(polygon)
CallFindPolygonCorners ==
    /\ call = None
    /\ \E poly \in Listings :
          /\ call' = [name |-> "find_polygon_corners", polygon |-> poly]
          /\ returned' = find_polygon_corners(poly)
    /\ UNCHANGED driver

HelperNext ==
    \/ CallLinePolygonIntersections
    \/ CallFindLongestSide
    \/ CallFindPolygonCorners
    \/ CallLineIntersection

HelperSpec == HelperInit /\ [][HelperNext]_vars

\* ------------------------------------------------------------------ properties
Done == pc = "done"

\* the k-th pair of consecutive waypoints of a path (k from 1)
PairOf(path, k) == <<path[2 * k - 1], path[2 * k]>>

EndsOf(line) == {line.start_point, line.end_point}

Dot(u, v) == u[1] * v[1] + u[2] * v[2]

Sign(x) == IF x > 0 THEN 1 ELSE IF x < 0 THEN -1 ELSE 0

\* extent of a polygon perpendicular to a bearing, times the bearing's length
CrossExtentScaled(poly, b) ==
    LET proj == {Dot(poly[i], Perp(b)) : i \in 1..Len(poly)}
        hi == CHOOSE m \in proj : \A q \in proj : m >= q
        lo == CHOOSE m \in proj : \A q \in proj : m <= q
    IN  hi - lo

\* spacing >= extent of the buffered polygon perpendicular to the bearing
SpacingCoversExtent ==
    Sq(spacing) * (Sq(bearing[1]) + Sq(bearing[2]))
        >= Sq(CrossExtentScaled(buffered_polygon, bearing))

\* spacing > extent of the buffered polygon perpendicular to the bearing
SpacingExceedsExtent ==
    Sq(spacing) * (Sq(bearing[1]) + Sq(bearing[2]))
        > Sq(CrossExtentScaled(buffered_polygon, bearing))

AllCoincident(poly) == \A i \in 1..Len(poly) : poly[i] = poly[1]

\* twice the signed area of the corner at vertex i
Turn(poly, i) ==
    LET a == EdgeStart(poly, i)
        b == EdgeEnd(poly, i)
        c == EdgeEnd(poly, (i % Len(poly)) + 1)
    IN  (b[1] - a[1]) * (c[2] - b[2]) - (b[2] - a[2]) * (c[1] - b[1])

\* strictly convex: every corner turns the same way
IsConvex(poly) ==
    /\ Len(poly) >= 3
    /\ \/ \A i \in 1..Len(poly) : Turn(poly, i) > 0
       \/ \A i \in 1..Len(poly) : Turn(poly, i) < 0

\* distance of a point to the nearest edge of the axis-aligned square Square(a)
InsetInSquare(point, a) ==
    LET d == {point[1], a - point[1], point[2], a - point[2]}
    IN  CHOOSE m \in d : \A q \in d : m <= q

\* C1: the returned list has exactly two waypoints per retained scan line, and
\* the waypoints at positions 2k, 2k+1 are the two endpoints of one retained
\* line, each line being used by one pair (v7 and v8, reversed or not)
C1_TwoWaypointsPerLine ==
    Done =>
        /\ Len(result) = 2 * Len(all_lines)
        /\ version = "v7" => line_count = Len(all_lines)
        /\ \A k \in 1..Len(all_lines) :
              \E j \in 1..Len(all_lines) :
                  {result[2 * k - 1], result[2 * k]} = EndsOf(all_lines[j])
        /\ \A j \in 1..Len(all_lines) :
              \E k \in 1..Len(all_lines) :
                  {result[2 * k - 1], result[2 * k]} = EndsOf(all_lines[j])

C1_Witness ==
    /\ Done
    /\ home_position # None
    /\ Len(all_lines) >= 3
    /\ result = Reverse(waypoints)
    /\ result # waypoints

\* the lines in all_lines order, each as (start_point, end_point)
RECURSIVE StartEndSequence(_)
StartEndSequence(lines) ==
    IF lines = <<>> THEN <<>>
    ELSE <<Head(lines).start_point, Head(lines).end_point>>
         \o StartEndSequence(Tail(lines))

\* C2 as stated: without a home position the v8 path is L0.start, L0.end,
\* L1.start, L1.end, ... over the lines sorted by ascending offset
C2_Original ==
    (Done /\ version = "v8" /\ home_position = None) =>
        result = StartEndSequence(all_lines)

\* C2 amended: without a home position the v8 path takes the lines in ascending
\* offset order, the first as (start_point, end_point) and every later line
\* start_point first only when that is strictly nearer to the previously
\* emitted waypoint than end_point, otherwise end_point first
C2_AscendingGreedy ==
    (Done /\ version = "v8" /\ home_position = None) =>
        /\ Len(result) = 2 * Len(all_lines)
        /\ \A k \in 1..(Len(all_lines) - 1) :
              all_lines[k].offset < all_lines[k + 1].offset
        /\ \A k \in 1..Len(all_lines) :
              LET line == all_lines[k]
                  forward == <<line.start_point, line.end_point>>
                  backward == <<line.end_point, line.start_point>>
              IN  IF k = 1 THEN PairOf(result, k) = forward
                  ELSE IF calculate_distance(result[2 * k - 2], line.start_point)
                            < calculate_distance(result[2 * k - 2], line.end_point)
                       THEN PairOf(result, k) = forward
                       ELSE PairOf(result, k) = backward

C2_Witness ==
    /\ Done /\ version = "v8" /\ home_position = None
    /\ Len(all_lines) >= 3
    /\ \E k \in 2..Len(all_lines) :
          /\ PairOf(result, k) = <<all_lines[k].end_point, all_lines[k].start_point>>
          /\ all_lines[k].end_point # all_lines[k].start_point

C4_ReturnLegNotLonger ==
    (Done /\ version = "v8" /\ home_position # None /\ result # <<>>) =>
        calculate_distance(Last(result), home_position)
            <= calculate_distance(Last(waypoints), home_position)

\* C5: for the square of side 100 or more with buffer 5, spacing 20 and no home,
\* every returned waypoint is at least the buffer distance away from every
\* edge of the original square
C5_WaypointsKeepBuffer ==
    (/\ Done /\ version = "v8" /\ polygon \in Squares /\ polygon[3][1] >= 100
     /\ buffer_distance = 5 /\ spacing = 20 /\ home_position = None) =>
        \A k \in 1..Len(result) :
            InsetInSquare(result[k], polygon[3][1]) >= buffer_distance

\* C6: consecutive scan lines of the v8 path are flown in opposite directions
\* along the dominant bearing
C6_DirectionAlternates ==
    (Done /\ version = "v8") =>
        \A k \in 1..(Len(all_lines) - 1) :
            LET along(m) == Sign(Dot(<<result[2 * m][1] - result[2 * m - 1][1],
                                       result[2 * m][2] - result[2 * m - 1][2]>>,
                                     bearing))
            IN  along(k) = -along(k + 1) /\ along(k) # 0

\* C7: for a convex polygon and a fixed buffer, a larger spacing never retains
\* more scan lines than a smaller one
C7_CountMonotone ==
    (Done /\ version = "v8" /\ IsConvex(polygon)) =>
        \A s2 \in Spacings :
            spacing < s2 =>
                RetainedLineCount(polygon, buffer_distance, s2) <= Len(all_lines)

\* C8 as stated: a spacing greater than or equal to the extent of the buffered
\* polygon perpendicular to the bearing retains at most one scan line
C8_Original ==
    (Done /\ Len(polygon) >= 3 /\ SpacingCoversExtent) => Len(all_lines) <= 1

\* C8 amended: a spacing strictly greater than that extent retains at most one
\* scan line
C8_AtMostOneLine ==
    (Done /\ Len(polygon) >= 3 /\ SpacingExceedsExtent) => Len(all_lines) <= 1

C8_Witness ==
    /\ Done /\ Len(polygon) >= 3 /\ ~AllCoincident(polygon)
    /\ SpacingExceedsExtent
    /\ Len(all_lines) = 1
    /\ Len(probes) >= 3

\* C9: a polygon with fewer than 3 vertices yields no scan line and no waypoint,
\* and no offset is probed (v7 and v8)
C9_ShortPolygonEmpty ==
    (Done /\ Len(polygon) < 3) =>
        /\ result = <<>>
        /\ probes = <<>>
        /\ all_lines = <<>>
        /\ waypoints = <<>>

C9_Witness ==
    /\ Done /\ Len(polygon) = 2 /\ result = <<>>

\* a degenerate-geometry input with at least 3 vertices
DegenerateInput ==
    /\ Len(polygon) >= 3
    /\ \/ AllCoincident(polygon)
       \/ find_longest_side_with_bearing(
              create_buffer_polygon(polygon, buffer_distance)).max_length = 0
       \/ (pc # "start" /\ SpacingCoversExtent)

\* C10 as stated: every degenerate-geometry input (coincident vertices,
\* zero-length dominant edge, spacing >= extent) ends in an empty path
C10_Original ==
    (Done /\ version = "v8" /\ DegenerateInput) => result = <<>>

\* C10 amended: with coincident vertices or a zero-length dominant edge the run
\* returns the empty path, and with a spacing strictly greater than the extent
\* it returns at most one scan line (two waypoints)
C10_DegenerateHandled ==
    (version = "v8" /\ Len(polygon) >= 3) =>
        /\ (Done /\ AllCoincident(polygon)) => result = <<>>
        /\ (Done /\ find_longest_side_with_bearing(buffered_polygon).max_length = 0)
              => result = <<>>
        /\ (Done /\ SpacingExceedsExtent) => Len(result) <= 2

C10_Witness ==
    /\ Done /\ version = "v8" /\ AllCoincident(polygon) /\ Len(polygon) >= 3
    /\ probes # <<>>
    /\ result = <<>>

\* C11: whenever the generated path is empty no mission file is written: main()
\* returns before create_waypoint_file, and create_waypoint_file called with an
\* empty list leaves the file system alone (v7, v8 and v3)
C11_EmptyPathNoFile ==
    /\ (pc \in {"exit", "returned"} /\ result = <<>>) => mission_file = NoFile
    /\ mission_file # NoFile => result # <<>>
    /\ \A file \in {NoFile, <<[command |-> 20, point |-> <<0, 0>>]>>} :
          create_waypoint_file(<<>>, HomePoint, file) = file

C11_Witness ==
    /\ pc = "returned"
    /\ version = "v3"
    /\ Len(polygon) >= 3
    /\ buffered_polygon # <<>>
    /\ result = <<>>
    /\ mission_file = NoFile

\* a moved vertex lies beyond the centroid, seen from where it started, by more
\* than the rounding of the grid (1.5 units along the axis)
BeyondCentroid(point, moved, c) ==
    LET along == Dot(<<moved[1] - c[1], moved[2] - c[2]>>,
                     <<point[1] - c[1], point[2] - c[2]>>)
    IN  along < 0 /\ 4 * Sq(along) > 9 * calculate_distance(point, c)

\* C12: for a polygon of at least 3 vertices and a buffer distance d >= 0,
\* create_buffer_polygon leaves every vertex between its original position and
\* the centroid, never past the centroid, also when d exceeds the distance of
\* the vertex to the centroid
C12_BufferNeverPastCentroid ==
    (pc # "start" /\ Len(polygon) >= 3) =>
        \A i \in 1..Len(polygon) :
            ~BeyondCentroid(polygon[i], buffered_polygon[i], Centroid(polygon))

\* both ends of a segment lie strictly beyond the same side of the bounding box
\* of a polygon, so the segment is entirely outside the box
OutsideBounds(line_start, line_end, poly) ==
    LET b == get_polygon_bounds(poly)
    IN  \/ line_start[1] < b.min_lat /\ line_end[1] < b.min_lat
        \/ line_start[1] > b.max_lat /\ line_end[1] > b.max_lat
        \/ line_start[2] < b.min_lon /\ line_end[2] < b.min_lon
        \/ line_start[2] > b.max_lon /\ line_end[2] > b.max_lon

\* C13: line_polygon_intersections returns the empty list for every probe
\* segment that lies entirely outside the polygon's bounding box, also when the
\* infinite extension of the segment crosses the polygon
C13_OutsideSegmentEmpty ==
    (/\ call # None
     /\ call.name = "line_polygon_intersections"
     /\ OutsideBounds(call.line_start, call.line_end, call.polygon)) =>
        returned = <<>>

\* C14: for every spacing main() accepts and hands to the converter, 0
\* included, the sweep loop terminates and the function returns.  The loop
\* "while offset_distance <= max_extend" is left only when offset_distance has
\* grown past max_extend, and every iteration, the skipped centre line included,
\* ends with offset_distance += spacing_meters: it terminates exactly when each
\* iteration that is entered leaves offset_distance larger than it found it
C14_SweepTerminates ==
    (/\ pc = "sweep"
     /\ version \in {"v7", "v8"}
     /\ WithinExtend(offset_distance, diagonal_distance)) =>
        offset_distance + spacing > offset_distance

\* the second of two calls of the generator has returned
SecondCallDone ==
    /\ Done
    /\ call # None
    /\ call.name = "generate_parallel_lines_to_longest_side"

\* C15: a call of generate_parallel_lines_to_longest_side leaves the caller's
\* polygon and the converter's spacing, buffer_distance and home_position as
\* they were, and a second call on the same converter with the same polygon
\* returns a path equal to the first
C15_InputsUntouched ==
    /\ [][config' = config]_vars
    /\ [](SecondCallDone => (result = returned /\ polygon = call.polygon))

C15_Witness ==
    /\ SecondCallDone
    /\ version = "v8"
    /\ buffer_distance > 0
    /\ home_position # None
    /\ Len(result) >= 4
    /\ result = returned

StartCandidates ==
    <<all_lines[1].start_point, all_lines[1].end_point,
      all_lines[Len(all_lines)].start_point, all_lines[Len(all_lines)].end_point>>

\* candidate k is nearest to the top_right corner, and the first such candidate
NearestCandidate(k) ==
    /\ \A j \in 1..4 :
          calculate_distance(StartCandidates[k], corners.top_right)
              <= calculate_distance(StartCandidates[j], corners.top_right)
    /\ \A j \in 1..(k - 1) :
          calculate_distance(StartCandidates[j], corners.top_right)
              > calculate_distance(StartCandidates[k], corners.top_right)

\* C17: with a home point and the corners known, the walk of
\* optimize_line_ordering_for_corners (v8) begins at the candidate among first
\* line start, first line end, last line start, last line end that is nearest
\* to top_right (the first one on ties), and visits the lines from the
\* offset-sorted end that holds this candidate toward the other end
C17_StartsNearTopRight ==
    (Done /\ version = "v8" /\ home_position # None /\ all_lines # <<>>) =>
        \E k \in 1..4 :
            /\ NearestCandidate(k)
            /\ waypoints[1] = StartCandidates[k]
            /\ \A m \in 1..Len(all_lines) :
                  {waypoints[2 * m - 1], waypoints[2 * m]}
                      = EndsOf(all_lines[IF k <= 2 THEN m
                                         ELSE Len(all_lines) + 1 - m])

C17_Witness ==
    /\ Done /\ version = "v8" /\ home_position # None
    /\ Len(all_lines) >= 3
    /\ NearestCandidate(4)
    /\ waypoints[1] = all_lines[Len(all_lines)].end_point
    /\ waypoints[2 * Len(all_lines)] \in EndsOf(all_lines[1])

\* the deduplicated intersections of the probe line at a signed offset with
\* the buffered polygon
ClipAt(signed_offset) ==
    LET offset_point == OffsetPoint(center, bearing, signed_offset)
    IN  line_polygon_intersections(
            ProbeEnd1(offset_point[1], offset_point[2], bearing),
            ProbeEnd2(offset_point[1], offset_point[2], bearing),
            buffered_polygon)

\* the retained lines at a signed offset
LinesAt(signed_offset) ==
    {j \in 1..Len(all_lines) : all_lines[j].offset = signed_offset}

\* C18: a probed offset contributes a scan line if and only if clipping its
\* probe line against the buffered polygon yields at least 2 points after
\* deduplication; the two endpoints of a retained line are distinct; a probe
\* with 0 or 1 point contributes nothing (v7 and v8)
C18_RetainedIffTwoPoints ==
    (Done /\ version \in {"v7", "v8"}) =>
        /\ \A i \in 1..Len(probes) :
              Cardinality(LinesAt(probes[i]))
                  = IF Len(ClipAt(probes[i])) >= 2 THEN 1 ELSE 0
        /\ \A j \in 1..Len(all_lines) :
              /\ \E i \in 1..Len(probes) : probes[i] = all_lines[j].offset
              /\ Len(all_lines[j].intersections) >= 2
              /\ all_lines[j].start_point # all_lines[j].end_point
        /\ Len(result) = 2 * Len(all_lines)

\* a probe with a single point is dropped, and a later probe of the same pass
\* is retained
C18_Witness ==
    /\ Done /\ version = "v8"
    /\ \E i \in 1..(Len(probes) - 1) :
          /\ Len(ClipAt(probes[i])) = 1
          /\ LinesAt(probes[i]) = {}
          /\ Abs(probes[i + 1]) > Abs(probes[i])
          /\ LinesAt(probes[i + 1]) # {}

\* position of a point along the scan bearing
Along(point) == Dot(point, bearing)

\* C19: the two stored endpoints of every retained scan line are the two
\* extreme intersections of its probe line with the buffered polygon: no
\* intersection lies beyond start_point or end_point along the probe line,
\* probes with 3 or more intersections included (v7 and v8)
C19_ExtremeEndpoints ==
    (Done /\ version \in {"v7", "v8"}) =>
        \A j \in 1..Len(all_lines) :
            LET line == all_lines[j]
                clip == ClipAt(line.offset)
                lo == IF Along(line.start_point) <= Along(line.end_point)
                      THEN Along(line.start_point) ELSE Along(line.end_point)
                hi == IF Along(line.start_point) <= Along(line.end_point)
                      THEN Along(line.end_point) ELSE Along(line.start_point)
            IN  \A k \in 1..Len(clip) : lo <= Along(clip[k]) /\ Along(clip[k]) <= hi

\* squared length of the edge that starts at vertex i (1-based)
EdgeLength(poly, i) == calculate_distance(EdgeStart(poly, i), EdgeEnd(poly, i))

FoundLongestSide == call # None /\ call.name = "find_longest_side_with_bearing"

\* C20: find_longest_side_with_bearing returns the index, length and bearing
\* of an edge of maximum length among all edges, the wraparound edge
\* included; among several edges of maximum length it returns the one with
\* the smallest index; the returned bearing lies in [0, 360)
C20_LongestSideFirstMax ==
    FoundLongestSide =>
        LET poly == call.polygon
            i == returned.longest_side_index + 1
        IN  /\ i \in 1..Len(poly)
            /\ \A j \in 1..Len(poly) : EdgeLength(poly, j) <= EdgeLength(poly, i)
            /\ \A j \in 1..(i - 1) : EdgeLength(poly, j) < EdgeLength(poly, i)
            /\ returned.max_length = EdgeLength(poly, i)
            /\ returned.bearing_degrees
                   = EdgeBearingDegrees(EdgeStart(poly, i), EdgeEnd(poly, i))
            /\ returned.bearing_degrees >= 0 /\ returned.bearing_degrees < 360

\* a tie for the longest edge that is not decided at index 0, the wraparound
\* edge among the tied edges, and a longest edge that heads west
C20_Witness ==
    /\ FoundLongestSide
    /\ returned.longest_side_index = 1
    /\ EdgeLength(call.polygon, Len(call.polygon)) = returned.max_length
    /\ returned.bearing_degrees > 180

\* C21: create_buffer_polygon leaves every vertex whose distance to the
\* centroid is at most the buffer distance exactly where it was
C21_NearVerticesUnmoved ==
    (pc # "start" /\ Len(polygon) >= 3) =>
        \A i \in 1..Len(polygon) :
            calculate_distance(polygon[i], Centroid(polygon)) <= Sq(buffer_distance)
                => buffered_polygon[i] = polygon[i]

FoundCorners == call # None /\ call.name = "find_polygon_corners"

\* the theoretical corners of the bounding box of a polygon
TheoreticalCorners(poly) ==
    LET b == get_polygon_bounds(poly)
    IN  [top_right    |-> <<b.max_lat, b.max_lon>>,
         top_left     |-> <<b.max_lat, b.min_lon>>,
         bottom_left  |-> <<b.min_lat, b.min_lon>>,
         bottom_right |-> <<b.min_lat, b.max_lon>>]

CornerNames == {"top_right", "top_left", "bottom_left", "bottom_right"}

\* vertex i is nearest to the corner and no earlier vertex is as near
FirstNearest(poly, corner, i) ==
    /\ \A j \in 1..Len(poly) :
          calculate_distance(poly[i], corner) <= calculate_distance(poly[j], corner)
    /\ \A j \in 1..(i - 1) :
          calculate_distance(poly[j], corner) > calculate_distance(poly[i], corner)

\* C22: for a polygon of at least 3 vertices, find_polygon_corners returns
\* for each of the four corners of the bounding box a vertex at minimal
\* planar distance from that corner, and the first such vertex in input
\* order
C22_CornersFirstNearest ==
    FoundCorners =>
        \A name \in CornerNames :
            \E i \in 1..Len(call.polygon) :
                /\ returned[name] = call.polygon[i]
                /\ FirstNearest(call.polygon, TheoreticalCorners(call.polygon)[name], i)

\* two different vertices are equally near to the top-right corner, and the
\* one listed first is returned although it is not the first vertex
C22_Witness ==
    /\ FoundCorners
    /\ \E i \in 2..Len(call.polygon), j \in 1..Len(call.polygon) :
          /\ i < j
          /\ call.polygon[i] # call.polygon[j]
          /\ returned.top_right = call.polygon[i]
          /\ calculate_distance(call.polygon[j], TheoreticalCorners(call.polygon).top_right)
                 = calculate_distance(call.polygon[i], TheoreticalCorners(call.polygon).top_right)

FoundIntersection == call # None /\ call.name = "line_intersection"

\* twice the signed area of the triangle a, b, c: which side of the line a-b
\* the point c lies on
Cross(a, b, c) ==
    (b[1] - a[1]) * (c[2] - a[2]) - (b[2] - a[2]) * (c[1] - a[1])

\* the cross product of the directions of a-b and c-d
CrossDirections(a, b, c, d) ==
    (b[1] - a[1]) * (d[2] - c[2]) - (b[2] - a[2]) * (d[1] - c[1])

\* the point c is on the infinite line a-b, up to the rounding of c to the grid
OnLine(a, b, c) ==
    2 * Abs(Cross(a, b, c)) <= Abs(b[1] - a[1]) + Abs(b[2] - a[2])

\* the point c is within the bounding box of a and b
Between(a, b, c) ==
    /\ (a[1] <= c[1] /\ c[1] <= b[1]) \/ (b[1] <= c[1] /\ c[1] <= a[1])
    /\ (a[2] <= c[2] /\ c[2] <= b[2]) \/ (b[2] <= c[2] /\ c[2] <= a[2])

\* the infinite line a-b meets the segment c-d: c and d are not strictly on
\* the same side of it, i.e. the parameter along c-d is within [0, 1]
LineMeetsSegment(a, b, c, d) == Sign(Cross(a, b, c)) * Sign(Cross(a, b, d)) <= 0

\* the intersection lies outside the stretch from p1 to p2 of the probe line
BeyondProbe(a, b, c) == ~Between(a, b, c)

FoundPolygonIntersections ==
    call # None /\ call.name = "line_polygon_intersections"

\* two points are within the duplicate tolerance in both latitude and longitude
Near(p, q) == Abs(p[1] - q[1]) < DedupEps /\ Abs(p[2] - q[2]) < DedupEps

\* the intersection of the probe line of the call with the edge that starts
\* at vertex i, the wraparound edge being the one that starts at the last vertex
EdgeHit(i) ==
    line_intersection(call.line_start, call.line_end,
                      call.polygon[i], call.polygon[(i % Len(call.polygon)) + 1])

HitEdges == {i \in 1..Len(call.polygon) : EdgeHit(i) # None}

\* C24: line_polygon_intersections tests the probe line against every one of
\* the n edges of the polygon, the wraparound edge included; no two returned
\* points are within the tolerance of each other in both axes; every
\* intersection found is within the tolerance of some returned point
C24_UniqueIntersections ==
    FoundPolygonIntersections =>
        /\ \A i \in HitEdges : \E k \in 1..Len(returned) : Near(EdgeHit(i), returned[k])
        /\ \A k \in 1..Len(returned) : \E i \in HitEdges : returned[k] = EdgeHit(i)
        /\ \A k \in 1..Len(returned) : \A l \in 1..Len(returned) :
              k # l => ~Near(returned[k], returned[l])

\* the probe line meets the wraparound edge, a duplicate was removed and two
\* points are returned
C24_Witness ==
    /\ FoundPolygonIntersections
    /\ Len(call.polygon) \in HitEdges
    /\ Cardinality(HitEdges) > Len(returned)
    /\ Len(returned) >= 2

\* |k| x spacing <= max_extend, half the diagonal of the bounding box
OffsetInRange(k) == 4 * Sq(k * spacing) <= diagonal_distance

\* the positions of the sweep at which the signed offset k x spacing is probed
ProbesAt(k) == {i \in 1..Len(probes) : probes[i] = k * spacing}

SweepDone == Done /\ version \in {"v7", "v8"} /\ Len(polygon) >= 3 /\ spacing > 0

\* C25: for a spacing > 0 the sweep probes exactly the signed offsets
\* k x spacing with |k| x spacing <= max_extend, each of them once; offset 0
\* is probed once, on the positive pass, after every negative offset
C25_SweepOffsets ==
    SweepDone =>
        LET n == Len(probes) + 1
        IN  /\ \A i \in 1..Len(probes) :
                  \E k \in (-n)..n : probes[i] = k * spacing /\ OffsetInRange(k)
            /\ \A k \in (-n)..n : OffsetInRange(k) => Cardinality(ProbesAt(k)) = 1
            /\ \A i \in ProbesAt(0) :
                  /\ \A j \in 1..(i - 1) : probes[j] < 0
                  /\ \A j \in (i + 1)..Len(probes) : probes[j] > 0

\* a sweep with several probes on either side of the centre line
C25_Witness ==
    /\ SweepDone
    /\ version = "v8"
    /\ Len(probes) >= 7
    /\ \E i \in 4..(Len(probes) - 3) : probes[i] = 0

\* v7: the scan line flown as the k-th pair of waypoints of the returned path;
\* the lines are appended to the path in the order of the sweep, and the path
\* is returned as it is or reversed as a whole
LineOfPair(k) ==
    IF result = waypoints THEN all_lines[k]
    ELSE all_lines[Len(all_lines) - k + 1]

\* C26: in v7 the scan lines appear in the waypoint sequence in ascending
\* order of their signed offsets, or in descending order after the reversal
\* of the whole sequence, so that consecutive lines of the path are
\* neighbouring offsets
C26_PlainOrderSorted ==
    (Done /\ version = "v7" /\ Len(result) = 2 * Len(all_lines)) =>
        \/ \A k \in 1..(Len(all_lines) - 1) :
              LineOfPair(k).offset < LineOfPair(k + 1).offset
        \/ \A k \in 1..(Len(all_lines) - 1) :
              LineOfPair(k).offset > LineOfPair(k + 1).offset

\* twice the midpoint of the side of the buffered polygon nearest to home
HomeSideMidpoint2 ==
    TwiceMidpoint(buffered_polygon,
                  get_side_closest_to_home(buffered_polygon, home_position) + 1)

\* squared distance, times 4, of a waypoint to the midpoint of the home side
ToHomeSide(point) == calculate_distance(Twice(point), HomeSideMidpoint2)

\* C27: in v7, with a home position and at least 2 waypoints, the returned
\* path ends at least as close to the midpoint of the polygon side nearest
\* home as it begins; without a home position the waypoints are returned
\* unchanged
C27_EndsNearHomeSide ==
    (Done /\ version = "v7" /\ Len(polygon) >= 3) =>
        /\ (home_position # None /\ Len(waypoints) >= 2) =>
               /\ ToHomeSide(Last(result)) <= ToHomeSide(result[1])
               /\ result \in {waypoints, Reverse(waypoints)}
        /\ home_position = None => result = waypoints

\* the sweep ends farther from the home side than it begins and is reversed
C27_Witness ==
    /\ Done /\ version = "v7" /\ home_position # None
    /\ Len(waypoints) >= 4
    /\ result = Reverse(waypoints)
    /\ ToHomeSide(Last(result)) < ToHomeSide(result[1])

\* C28: when the command line gives no --spacing, the v3 pattern is
\* generated with the spacing calculated from altitude and sidelap:
\* auto_spacing is true and self.spacing is calculate_optimal_spacing() from
\* the start of the sweep on
C28_AutoSpacingWhenNoOption ==
    (version = "v3" /\ spacing_arg = None /\ Len(polygon) >= 3 /\ pc # "start") =>
        /\ auto_spacing
        /\ spacing = calculate_optimal_spacing(altitude)

\* v8: the scan line flown as the k-th pair of waypoints of the returned path:
\* the walk follows line_order, and the path is returned as walked or reversed
PathLine(k) ==
    all_lines[IF result = waypoints THEN line_order[k]
              ELSE line_order[Len(line_order) - k + 1]]

OrderedDone == Done /\ version = "v8" /\ all_lines # <<>>

\* C29: in every path returned by optimize_line_ordering_for_corners each
\* retained scan line appears exactly once, and the signed offsets of the
\* lines read along the path are strictly ascending or strictly descending,
\* whatever home, corners and the final reversal are
C29_OffsetsStrictlyMonotone ==
    OrderedDone =>
        LET n == Len(all_lines)
        IN  /\ Len(result) = 2 * n
            /\ Len(line_order) = n
            /\ \A j \in 1..n : Cardinality({k \in 1..n : line_order[k] = j}) = 1
            /\ \A k \in 1..n : {result[2 * k - 1], result[2 * k]} = EndsOf(PathLine(k))
            /\ \/ \A k \in 1..(n - 1) : PathLine(k).offset < PathLine(k + 1).offset
               \/ \A k \in 1..(n - 1) : PathLine(k).offset > PathLine(k + 1).offset

\* lines on both sides of the centre line, walked from the last line and
\* reversed at the end
C29_Witness ==
    /\ OrderedDone
    /\ home_position # None
    /\ Len(all_lines) >= 4
    /\ all_lines[1].offset < 0
    /\ line_order[1] = Len(all_lines)
    /\ result # waypoints

\* the two ends of the probe line at a signed offset
ProbeEnds(signed_offset) ==
    LET offset_point == OffsetPoint(center, bearing, signed_offset)
    IN  <<ProbeEnd1(offset_point[1], offset_point[2], bearing),
          ProbeEnd2(offset_point[1], offset_point[2], bearing)>>

\* the point is the intersection of the probe line at the offset with the
\* edge of the buffered polygon that starts at vertex i, and lies on that edge
HitsEdgeAt(point, signed_offset, i) ==
    LET edge_start == EdgeStart(buffered_polygon, i)
        edge_end == EdgeEnd(buffered_polygon, i)
        ends == ProbeEnds(signed_offset)
    IN  /\ point = line_intersection(ends[1], ends[2], edge_start, edge_end)
        /\ OnLine(edge_start, edge_end, point)
        /\ Between(edge_start, edge_end, point)
        /\ point \notin {ends[1], ends[2]}

\* C30: every waypoint of the returned path (v7 and v8) is an intersection
\* point of the probe line of a retained scan line with an edge of the
\* buffered polygon and lies on that edge; no waypoint is an end of a probe
\* line or any other point
C30_WaypointsOnBoundary ==
    (Done /\ version \in {"v7", "v8"}) =>
        \A w \in 1..Len(result) :
            \E j \in 1..Len(all_lines) :
                /\ result[w] \in EndsOf(all_lines[j])
                /\ \E i \in 1..Len(buffered_polygon) :
                      HitsEdgeAt(result[w], all_lines[j].offset, i)

\* a path of several lines over a polygon that was buffered
C30_Witness ==
    /\ Done /\ version = "v8"
    /\ buffer_distance > 0
    /\ home_position # None
    /\ Len(result) >= 8
    /\ \A w \in 1..Len(result) : result[w] # center

====
